---- MODULE Spec2Model ----
(***************************************************************************)
(* Model of femwell/mesh/mesh.py: the curve splitter break_line, the       *)
(* ordered difference tiling of mesh_from_OrderedDict and the boolean      *)
(* fragment tiling of mesh_from_Dict.                                      *)
(*                                                                         *)
(* Geometry is rectilinear on an integer lattice.  An area geometry        *)
(* (Polygon / MultiPolygon) is the set of unit cells it covers, a cell     *)
(* <<x, y>> being the square [x, x+1] x [y, y+1].  A line geometry         *)
(* (LineString, or the ring of a polygon) is its coordinate sequence, a    *)
(* sequence of lattice points whose consecutive points are axis-aligned.   *)
(* The shapely operations the code calls are computed on these values.     *)
(* The shapes given to the two mesh functions are polygons.                *)
(***************************************************************************)
EXTENDS Integers, Sequences, FiniteSets, TLC

\* Bounds of the model.
GridW == 4
GridH == 3
MaxShapes == 3

VARIABLES
    func,                 \* the function called
    pc,                   \* position of the running call
    emptyKind,            \* geometry type the installed GEOS gives an empty difference
    ringStart,            \* the coordinate at which linemerge starts a closed line
    shapes_dict,          \* the caller's shapes, in insertion order (label = position)
    shapes_tiled_dict,    \* label -> tiled region (step 1)
    polygons_broken_dict, \* label -> broken polygons (step 2)
    surface_calls,        \* arguments of the add_xy_surface calls made so far
    rings,                \* mesh_from_Dict: the rings that are polygonized
    shapes_tiled_list,    \* mesh_from_Dict: the fragments
    shapely_xy_surfaces,  \* meshtracker: the polygons of the surfaces added
    gmsh_xy_surfaces,     \* meshtracker: the handles of the surfaces added
    physical_calls,       \* arguments of the add_physical calls made so far
    curve,                \* break_line: the line before any call
    other_lines,          \* break_line: the other_line of every call so far
    line_before,          \* break_line: the line given to the last call
    line_after,           \* break_line: the line returned by the last call
    session_calls,        \* the calls that open or close the gmsh session, in order
    resolutions,          \* the argument resolutions, once the call has read it
    fields,               \* the gmsh size fields added, by field id
    background,           \* the field set as background mesh, by id
    filename,             \* the argument filename, once the call has read it
    error,                \* the exception that has left the call
    mesh_returned,        \* the call has returned a mesh
    file_written          \* gmsh.write has written the mesh file

vars == <<func, pc, emptyKind, ringStart, shapes_dict, shapes_tiled_dict,
          polygons_broken_dict, surface_calls, shapes_tiled_list,
          shapely_xy_surfaces, gmsh_xy_surfaces, physical_calls,
          curve, other_lines, line_before, line_after, rings,
          session_calls, resolutions, fields, background, filename, error,
          mesh_returned, file_written>>

orderedVars == <<emptyKind, ringStart, shapes_tiled_dict, polygons_broken_dict>>

dictVars == <<rings, shapes_tiled_list, shapely_xy_surfaces, gmsh_xy_surfaces,
              physical_calls>>

fieldVars == <<resolutions, fields, background>>

resultVars == <<filename, mesh_returned, file_written>>

breakVars == <<curve, other_lines, line_before, line_after>>

----------------------------------------------------------------------------
\* Area geometries: sets of cells.

Cells == {<<x, y>> : x \in 0 .. GridW - 1, y \in 0 .. GridH - 1}

PadCells == {<<x, y>> : x \in -1 .. GridW, y \in -1 .. GridH}

Box(x0, y0, x1, y1) == {c \in Cells : x0 <= c[1] /\ c[1] < x1 /\ y0 <= c[2] /\ c[2] < y1}

\* The shapes a caller's dict is filled from.
Full == Box(0, 0, GridW, GridH)            \* the whole domain
Left == Box(0, 0, 2, GridH)                \* its left part
Right == Box(2, 0, GridW, GridH)           \* its right part, beside Left
Bottom == Box(0, 0, GridW, 1)              \* a strip across the bottom
Middle == Box(1, 0, 3, 2)                  \* a block across Left, Right and Bottom
CoreB == Box(1, 1, 2, 2)                   \* a cell inside the domain
CoreC == Box(2, 1, 3, 2)                   \* the cell beside it
Frame == Full \ Box(1, 1, 3, 2)            \* a polygon with a hole

InputShapes == {Full, Left, Right, Bottom, Middle, CoreB, CoreC, Frame}

Neighbours(c) ==
    {<<c[1] + 1, c[2]>>, <<c[1] - 1, c[2]>>, <<c[1], c[2] + 1>>, <<c[1], c[2] - 1>>}

\* The part of S edge-connected to the seed.
RECURSIVE Grow(_, _)
Grow(seed, S) ==
    LET n == seed \cup {c \in S \ seed : Neighbours(c) \cap seed # {}}
    IN  IF n = seed THEN seed ELSE Grow(n, S)

\* The polygons of a (multi)polygon: its edge-connected parts.
RECURSIVE Components(_)
Components(S) ==
    IF S = {} THEN {}
    ELSE LET c == CHOOSE c \in S : TRUE
             comp == Grow({c}, S)
         IN  {comp} \cup Components(S \ comp)

\* The holes of a polygon P: the bounded parts of its complement.
Holes(P) ==
    LET rest == PadCells \ P
        outside == Grow({<<-1, -1>>}, rest)
    IN  Components(rest \ outside)

Fill(P) == P \cup UNION Holes(P)

\* shapely: a.difference(b), a.intersection(b), unary_union(list).
Difference(a, b) == a \ b

RECURSIVE UnaryUnion(_)
UnaryUnion(list) ==
    IF list = << >> THEN {} ELSE Head(list) \cup UnaryUnion(Tail(list))

----------------------------------------------------------------------------
\* Line geometries: coordinate sequences.

\* p lies on the closed segment from a to b.
OnSegment(p, a, b) ==
    \/ /\ a[1] = b[1] /\ p[1] = a[1]
       /\ ((a[2] <= p[2] /\ p[2] <= b[2]) \/ (b[2] <= p[2] /\ p[2] <= a[2]))
    \/ /\ a[2] = b[2] /\ p[2] = a[2]
       /\ ((a[1] <= p[1] /\ p[1] <= b[1]) \/ (b[1] <= p[1] /\ p[1] <= a[1]))

Lo(m, n) == IF m <= n THEN m ELSE n

Hi(m, n) == IF m <= n THEN n ELSE m

\* The unit edges of the segment from a to b.
SegEdges(a, b) ==
    IF a[1] = b[1]
    THEN {{<<a[1], k>>, <<a[1], k + 1>>} : k \in Lo(a[2], b[2]) .. Hi(a[2], b[2]) - 1}
    ELSE {{<<k, a[2]>>, <<k + 1, a[2]>>} : k \in Lo(a[1], b[1]) .. Hi(a[1], b[1]) - 1}

UnitEdges(line) == UNION {SegEdges(line[i], line[i + 1]) : i \in 1 .. Len(line) - 1}

LinePoints(line) == UNION UnitEdges(line)

Coords(line) == {line[i] : i \in DOMAIN line}

IsClosed(line) == Len(line) > 1 /\ line[1] = line[Len(line)]

\* line.boundary: the two ends of an open line, nothing for a closed one.
LineBoundary(line) ==
    IF line = << >> \/ IsClosed(line) THEN {} ELSE {line[1], line[Len(line)]}

\* The first node met going from p in direction d.
RECURSIVE NextNode(_, _, _)
NextNode(p, d, nodes) ==
    LET q == <<p[1] + d[1], p[2] + d[2]>>
    IN  IF q \in nodes THEN q ELSE NextNode(q, d, nodes)

\* line.intersection(other_line).  GEOS nodes the two lines against each
\* other and returns every noded piece of the common linework as a
\* LineString of its own (a piece ends where the overlap ends and at every
\* vertex of either input), and every isolated common point as a Point.
\* A component is [type, boundary]: its type and its end points.
Intersection(line, other_line) ==
    LET common == UnitEdges(line) \cap UnitEdges(other_line)
        onCommon == UNION common
        coords == Coords(line) \cup Coords(other_line)
        nodes == {p \in onCommon :
                     p \in coords \/ Cardinality({e \in common : p \in e}) # 2}
        pieces == {{p, NextNode(p, d, nodes)} :
                     <<p, d>> \in {pd \in nodes \X {<<1, 0>>, <<0, 1>>} :
                         {pd[1], <<pd[1][1] + pd[2][1], pd[1][2] + pd[2][2]>>} \in common}}
        points == (LinePoints(line) \cap LinePoints(other_line)) \ onCommon
    IN  {[type |-> "LineString", boundary |-> pq] : pq \in pieces}
        \cup {[type |-> "Point", boundary |-> {p}] : p \in points}

\* A split that inserts the point even where the line has a vertex already.
SplitLinePointInsert(line, splitter) ==
    LET hits == {i \in 1 .. Len(line) - 1 : OnSegment(splitter, line[i], line[i + 1])}
    IN  IF hits = {} \/ splitter \in LineBoundary(line)
        THEN <<line>>
        ELSE LET i == CHOOSE i \in hits : \A j \in hits : i <= j
             IN  <<Append(SubSeq(line, 1, i), splitter),
                   <<splitter>> \o SubSeq(line, i + 1, Len(line))>>

\* shapely.ops.split(line, point): the pieces of line cut at the point.
SplitLinePoint(line, splitter) ==
    LET hits == {i \in 1 .. Len(line) - 1 : OnSegment(splitter, line[i], line[i + 1])}
    IN  IF hits = {} \/ splitter \in LineBoundary(line)
        THEN <<line>>                  \* point not on the line interior
        ELSE IF line[1] = splitter
        THEN <<line>>                  \* closed ring, cut at its start
        ELSE LET i == CHOOSE i \in hits : \A j \in hits : i <= j
             IN  IF splitter = line[i + 1]
                 THEN <<SubSeq(line, 1, i + 1), SubSeq(line, i + 1, Len(line))>>
                 ELSE <<Append(SubSeq(line, 1, i), splitter),
                        <<splitter>> \o SubSeq(line, i + 1, Len(line))>>

\* Lexicographic order of coordinates.
CoordLess(p, q) == p[1] < q[1] \/ (p[1] = q[1] /\ p[2] < q[2])

\* A merge that loses the coordinate after the seam.
LineMergeDropNext(pieces) ==
    IF Len(pieces) = 1 THEN pieces[1] ELSE pieces[1] \o Tail(Tail(pieces[2]))

\* shapely.ops.linemerge of the pieces of one line: the pieces sewn back at
\* their common end, every coordinate kept and the direction kept.  The two
\* pieces of a closed line meet at both ends; the merged ring starts at the
\* start of the first piece or at the lesser of the two meeting points,
\* according to ringStart.
LineMerge(pieces) ==
    IF Len(pieces) = 1 THEN pieces[1]
    ELSE IF /\ ringStart = "least"
            /\ pieces[1][1] = pieces[2][Len(pieces[2])]
            /\ CoordLess(pieces[2][1], pieces[1][1])
    THEN pieces[2] \o Tail(pieces[1])
    ELSE pieces[1] \o Tail(pieces[2])

\* A loop body that cuts the line at the start of the component only.
BreakAtStartOnly(line, intersection) ==
    IF intersection.type # "Point"
    THEN LET new_coords_start == CHOOSE p \in intersection.boundary : TRUE
         IN  LineMerge(SplitLinePoint(line, new_coords_start))
    ELSE line

\* The body of break_line's loop for one component of the intersection.
BreakAt(line, intersection) ==
    IF intersection.type # "Point"
    THEN LET new_coords_start == CHOOSE p \in intersection.boundary : TRUE
             new_coords_end == CHOOSE p \in intersection.boundary : p # new_coords_start
             line1 == LineMerge(SplitLinePoint(line, new_coords_start))
         IN  LineMerge(SplitLinePoint(line1, new_coords_end))
    ELSE line

\* The ways linemerge may start a closed line.
RingStarts == {"first", "least"}

RECURSIVE BreakLoop(_, _)
BreakLoop(line, intersections) ==
    IF intersections = {} THEN line
    ELSE LET intersection == CHOOSE c \in intersections : TRUE
         IN  BreakLoop(BreakAt(line, intersection), intersections \ {intersection})

break_line(line, other_line) == BreakLoop(line, Intersection(line, other_line))

----------------------------------------------------------------------------
\* Rings of polygons.

\* The boundary of a cell set, directed with the set on its left.
DirEdges(S) ==
    UNION {
        {<<<<c[1], c[2]>>, <<c[1] + 1, c[2]>>>> : d \in {<<c[1], c[2] - 1>>} \ S}
        \cup {<<<<c[1] + 1, c[2]>>, <<c[1] + 1, c[2] + 1>>>> : d \in {<<c[1] + 1, c[2]>>} \ S}
        \cup {<<<<c[1] + 1, c[2] + 1>>, <<c[1], c[2] + 1>>>> : d \in {<<c[1], c[2] + 1>>} \ S}
        \cup {<<<<c[1], c[2] + 1>>, <<c[1], c[2]>>>> : d \in {<<c[1] - 1, c[2]>>} \ S}
        : c \in S}

LexMin(P) ==
    CHOOSE p \in P : \A q \in P : p[1] < q[1] \/ (p[1] = q[1] /\ p[2] <= q[2])

RECURSIVE Walk(_, _, _)
Walk(D, start, path) ==
    LET cur == path[Len(path)]
        nxt == (CHOOSE e \in D : e[1] = cur)[2]
    IN  IF nxt = start THEN Append(path, nxt) ELSE Walk(D, start, Append(path, nxt))

Collinear(a, b, c) == (a[1] = b[1] /\ b[1] = c[1]) \/ (a[2] = b[2] /\ b[2] = c[2])

\* The coordinates of a ring: the corners of the walk, closed at its start.
RECURSIVE Corners(_, _)
Corners(path, i) ==
    IF i > Len(path) THEN << >>
    ELSE IF i = 1 \/ i = Len(path) \/ ~Collinear(path[i - 1], path[i], path[i + 1])
    THEN <<path[i]>> \o Corners(path, i + 1)
    ELSE Corners(path, i + 1)

\* The ring around a cell set without holes.
RingOf(S) ==
    LET D == DirEdges(S)
        start == LexMin({e[1] : e \in D})
    IN  Corners(Walk(D, start, <<start>>), 1)

\* LineString(polygon.exterior); an empty polygon has an empty exterior.
Exterior(polygon) == IF polygon = {} THEN << >> ELSE RingOf(Fill(polygon))

\* polygon.interiors, each as a LineString.
Interiors(polygon) == {RingOf(H) : H \in Holes(polygon)}

\* shape.geoms if hasattr(shape, 'geoms') else [shape].  An empty
\* GeometryCollection has no parts; an empty Polygon is its own only part.
Geoms(shape, kind) ==
    IF shape = {} THEN (IF kind = "GeometryCollection" THEN {} ELSE {{}})
    ELSE Components(shape)

\* shape.type of a tiled region.
GeomType(shape, kind) ==
    IF shape = {} THEN kind
    ELSE IF Cardinality(Components(shape)) = 1 THEN "Polygon" ELSE "MultiPolygon"

----------------------------------------------------------------------------
\* mesh_from_OrderedDict, step 1.

\* A tiling in which only the nearest shape before it is subtracted.
DiffShapeNearest(diff_shape, shapes, j) ==
    IF j = 0 THEN diff_shape ELSE Difference(diff_shape, shapes[j])

\* diff_shape after the inner loop has subtracted the shapes at the
\* positions j, j-1, ..., 1.
RECURSIVE DiffShape(_, _, _)
DiffShape(diff_shape, shapes, j) ==
    IF j = 0 THEN diff_shape
    ELSE DiffShape(Difference(diff_shape, shapes[j]), shapes, j - 1)

\* A tiling in which the shapes inserted later are subtracted instead.
TileOrderedLaterWins(shapes) ==
    [lower_index \in DOMAIN shapes |->
        shapes[lower_index] \
            UNION {shapes[j] : j \in lower_index + 1 .. Len(shapes)}]

\* A tiling in which the slice runs one too far and a shape is subtracted from itself.
TileOrderedInclusive(shapes) ==
    [lower_index \in DOMAIN shapes |->
        DiffShape(shapes[lower_index], shapes, lower_index)]

TileOrdered(shapes) ==
    [lower_index \in DOMAIN shapes |->
        DiffShape(shapes[lower_index], shapes, lower_index - 1)]

\* An empty difference comes back from GEOS as an empty Polygon or as an
\* empty GeometryCollection, depending on the GEOS installed; the type is
\* the same for every empty region of a run.
EmptyKinds(tiled) ==
    IF \E name \in DOMAIN tiled : tiled[name] = {}
    THEN {"Polygon", "GeometryCollection"}
    ELSE {"none"}

----------------------------------------------------------------------------
\* mesh_from_OrderedDict, step 2.

RECURSIVE BreakAll(_, _)
BreakAll(line, others) ==
    IF others = {} THEN line
    ELSE LET o == CHOOSE o \in others : TRUE
         IN  BreakAll(break_line(line, o), others \ {o})

\* The parts of every tiled region, each with LineString(part.exterior)
\* and its interiors as LineStrings.
TiledPolygons(tiled, kind) ==
    [name \in DOMAIN tiled |->
        {[exterior |-> Exterior(g), interiors |-> Interiors(g)] :
            g \in Geoms(tiled[name], kind)}]

\* The loop over the parts of one second shape: the line is broken by the
\* exterior of each part and then by each of the part's interiors.
RECURSIVE BreakAgainstSecond(_, _)
BreakAgainstSecond(line, second_shapes) ==
    IF second_shapes = {} THEN line
    ELSE LET second_shape == CHOOSE g \in second_shapes : TRUE
             line1 == break_line(line, second_shape.exterior)
         IN  BreakAgainstSecond(BreakAll(line1, second_shape.interiors),
                                second_shapes \ {second_shape})

\* A step 2 in which a line is broken only against the shapes after its own.
RECURSIVE BreakAgainstLater(_, _, _, _)
BreakAgainstLater(line, first_name, polys, second_index) ==
    IF second_index > Len(polys) THEN line
    ELSE IF second_index <= first_name
    THEN BreakAgainstLater(line, first_name, polys, second_index + 1)
    ELSE BreakAgainstLater(BreakAgainstSecond(line, polys[second_index]),
                           first_name, polys, second_index + 1)

\* The loop over shapes_dict.items() around it, from second_index on.
RECURSIVE BreakAgainstOthers(_, _, _, _)
BreakAgainstOthers(line, first_name, polys, second_index) ==
    IF second_index > Len(polys) THEN line
    ELSE IF second_index = first_name
    THEN BreakAgainstOthers(line, first_name, polys, second_index + 1)
    ELSE BreakAgainstOthers(BreakAgainstSecond(line, polys[second_index]),
                            first_name, polys, second_index + 1)

\* broken_shapes of one label: every part of its tiled region with its
\* exterior and its interiors broken against all the other tiled regions.
BrokenShapes(first_name, polys) ==
    {[exterior |-> BreakAgainstOthers(first_shape.exterior, first_name, polys, 1),
      interiors |-> {BreakAgainstOthers(first_interior_line, first_name, polys, 1) :
                        first_interior_line \in first_shape.interiors}] :
        first_shape \in polys[first_name]}

\* The outer loop of step 2 from first_name on: polygons_broken_dict, or
\* "IndexError" when a label whose tiled region is no (Multi)Polygon has
\* no broken shape for broken_shapes[0].
RECURSIVE BreakShapes(_, _, _, _, _)
BreakShapes(first_name, tiled, kind, polys, broken) ==
    IF first_name > Len(tiled) THEN broken
    ELSE IF GeomType(tiled[first_name], kind) \in {"Polygon", "MultiPolygon"}
    THEN BreakShapes(first_name + 1, tiled, kind, polys,
             Append(broken, [name |-> first_name,
                             polygon |-> BrokenShapes(first_name, polys)]))
    ELSE "IndexError"

----------------------------------------------------------------------------
\* mesh_from_Dict.

\* The unit edges and lattice points of the closure of a cell set.
CellEdges(S) ==
    UNION {{{<<c[1], c[2]>>, <<c[1] + 1, c[2]>>},
            {<<c[1] + 1, c[2]>>, <<c[1] + 1, c[2] + 1>>},
            {<<c[1], c[2] + 1>>, <<c[1] + 1, c[2] + 1>>},
            {<<c[1], c[2]>>, <<c[1], c[2] + 1>>}} : c \in S}

CellPoints(S) == UNION CellEdges(S)

\* The coordinates of all rings of an area geometry.
RingCoords(shape) ==
    UNION {Coords(Exterior(g)) \cup UNION {Coords(r) : r \in Interiors(g)} :
              g \in Components(shape)}

\* a.intersection(b) of two area geometries: the area they share, the
\* boundary pieces they share away from that area (noded like the
\* intersection of two lines) and the isolated points they share.
AreaIntersection(a, b) ==
    LET area == a \cap b
        lines == (CellEdges(a) \cap CellEdges(b)) \ CellEdges(area)
        onLines == UNION lines
        coords == RingCoords(a) \cup RingCoords(b)
        nodes == {p \in onLines :
                     p \in coords \/ Cardinality({e \in lines : p \in e}) # 2}
        pieces == {{p, NextNode(p, d, nodes)} :
                     <<p, d>> \in {pd \in nodes \X {<<1, 0>>, <<0, 1>>} :
                         {pd[1], <<pd[1][1] + pd[2][1], pd[1][2] + pd[2][2]>>} \in lines}}
        points == ((CellPoints(a) \cap CellPoints(b)) \ CellPoints(area)) \ onLines
    IN  [area |-> area, polygons |-> Components(area), lines |-> pieces, points |-> points]

\* object.type of an intersection.
ObjectType(object) ==
    LET na == Cardinality(object.polygons)
        nl == Cardinality(object.lines)
        np == Cardinality(object.points)
    IN  CASE na = 0 /\ nl = 0 /\ np = 0 -> "Empty"
          [] na = 0 /\ nl = 0 /\ np = 1 -> "Point"
          [] na = 0 /\ nl = 0 /\ np > 1 -> "MultiPoint"
          [] na = 0 /\ nl = 1 /\ np = 0 -> "LineString"
          [] na = 0 /\ nl > 1 /\ np = 0 -> "MultiLineString"
          [] na = 1 /\ nl = 0 /\ np = 0 -> "Polygon"
          [] na > 1 /\ nl = 0 /\ np = 0 -> "MultiPolygon"
          [] OTHER -> "GeometryCollection"

\* listpoly: the intersections of combinations(all_polygons, 2).
ListPoly(all_polygons) ==
    {AreaIntersection(all_polygons[i], all_polygons[j]) :
        <<i, j>> \in {ij \in (DOMAIN all_polygons) \X (DOMAIN all_polygons) : ij[1] < ij[2]}}

\* The loop over listpoly: points, lines and empty objects are skipped;
\* object.exterior exists on a Polygon only.
Skipped(object) == ObjectType(object) \in {"Point", "LineString", "Empty"}

HasExterior(object) == ObjectType(object) = "Polygon"

Rings(listpoly) == {Exterior(object.area) : object \in {o \in listpoly : ~Skipped(o)}}

\* polygonize(unary_union(rings)): the bounded faces of the linework.
RECURSIVE GrowWithin(_, _, _)
GrowWithin(seed, S, linework) ==
    LET n == seed \cup {c \in S \ seed : \E d \in Neighbours(c) \cap seed :
                            CellEdges({c}) \cap CellEdges({d}) \cap linework = {}}
    IN  IF n = seed THEN seed ELSE GrowWithin(n, S, linework)

RECURSIVE Faces(_, _)
Faces(S, linework) ==
    IF S = {} THEN {}
    ELSE LET c == CHOOSE c \in S : TRUE
             face == GrowWithin({c}, S, linework)
         IN  {face} \cup Faces(S \ face, linework)

Polygonize(ring_lines) ==
    LET linework == UNION {UnitEdges(r) : r \in ring_lines}
        unbounded == GrowWithin({<<-1, -1>>}, PadCells, linework)
    IN  Faces(PadCells \ unbounded, linework)

RECURSIVE SetToList(_)
SetToList(S) ==
    IF S = {} THEN << >>
    ELSE LET x == CHOOSE x \in S : TRUE IN <<x>> \o SetToList(S \ {x})

\* Steps 1 to 3: shapes_tiled_list, or "AttributeError" when an object
\* that is not skipped has no exterior.
TileFragments(shapes) ==
    LET total == UnaryUnion(shapes)
        all_polygons == <<total>> \o shapes
        listpoly == ListPoly(all_polygons)
    IN  IF \E object \in listpoly : ~Skipped(object) /\ ~HasExterior(object)
        THEN "AttributeError"
        ELSE SetToList(Polygonize(Rings(listpoly)))

\* polygon.contains(shapely_surface)
Contains(polygon, shapely_surface) ==
    shapely_surface # {} /\ shapely_surface \subseteq polygon

\* The two inner loops of the retag step for one polygon of a label: for
\* every index, one append of gmsh_xy_surfaces[index] per surface that the
\* polygon contains.
RECURSIVE EnclosedSurfaces(_, _, _, _)
EnclosedSurfaces(polygon, shapely_surfaces, gmsh_surfaces, index) ==
    IF index > Len(shapely_surfaces) THEN << >>
    ELSE LET hits == SelectSeq(shapely_surfaces, LAMBDA x : Contains(polygon, x))
         IN  [k \in 1 .. Len(hits) |-> gmsh_surfaces[index]]
             \o EnclosedSurfaces(polygon, shapely_surfaces, gmsh_surfaces, index + 1)

\* surfaces of one label: the loop over its polygons.
RECURSIVE LabelSurfaces(_, _, _)
LabelSurfaces(polygons, shapely_surfaces, gmsh_surfaces) ==
    IF polygons = {} THEN << >>
    ELSE LET polygon == CHOOSE g \in polygons : TRUE
         IN  EnclosedSurfaces(polygon, shapely_surfaces, gmsh_surfaces, 1)
             \o LabelSurfaces(polygons \ {polygon}, shapely_surfaces, gmsh_surfaces)

\* meshtracker.add_xy_surface(polygon, i, physical=False): the tracker
\* keeps the polygon and the handle of the new surface side by side.
AddXYSurface(tracker, polygon, i) ==
    [shapely |-> Append(tracker.shapely, polygon),
     gmsh |-> Append(tracker.gmsh, [surface |-> i])]

RECURSIVE AddAllSurfaces(_, _, _)
AddAllSurfaces(tracker, list, i) ==
    IF i >= Len(list) THEN tracker
    ELSE AddAllSurfaces(AddXYSurface(tracker, list[i + 1], i), list, i + 1)

----------------------------------------------------------------------------
\* The gmsh session, the exceptions, the size fields and the result.

\* The with statement enters the pygmsh geometry, then the body calls
\* gmsh.initialize() and geometry.__enter__() itself.
OpenSession == <<"__enter__", "gmsh.initialize", "__enter__">>

\* Leaving the with block, by return or by exception, calls __exit__ once.
CloseSession(calls) == Append(calls, "__exit__")

\* An exception that is recorded while the call goes on to its end.
RaiseAndGoOn(exception) == [pc |-> "meshed", error |-> exception]

\* An exception raised in the with block: nothing catches it, it leaves
\* the call.
Raise(exception) == [pc |-> "failed", error |-> exception]

\* The rings collected by mesh_from_Dict.
CollectRings(shapes) == Rings(ListPoly(<<UnaryUnion(shapes)>> \o shapes))

\* default_resolution_max as the caller gives it, in tenths.
default_resolution_max == 5

\* The mesh settings a caller asks for, in tenths.
MeshSettings == {[resolution |-> 1, distance |-> 2], [resolution |-> 3, distance |-> 1]}

RECURSIVE ResolutionItems(_, _)
ResolutionItems(labels, setting) ==
    IF labels = {} THEN << >>
    ELSE LET label == CHOOSE l \in labels : \A m \in labels : l <= m
         IN  <<[label |-> label, resolution |-> setting[label].resolution,
                distance |-> setting[label].distance]>>
             \o ResolutionItems(labels \ {label}, setting)

\* The values of the argument resolutions: None, or a dict that gives
\* mesh settings to some of the labels.
ResolutionArgs(labels) ==
    {[kind |-> "None", items |-> << >>]}
    \cup UNION {{[kind |-> "dict", items |-> ResolutionItems(some, setting)] :
                    setting \in [some -> MeshSettings]} : some \in SUBSET labels}

\* A gmsh field with no option set.
NoField ==
    [type |-> "", F |-> 0, InField |-> -1, SurfacesList |-> 0, CurvesList |-> 0,
     Sampling |-> 0, SizeMin |-> 0, SizeMax |-> 0, DistMin |-> -1, DistMax |-> 0,
     FieldsList |-> << >>]

\* One pass of the refinement loop for the label at items[k]: the fields
\* n .. n+3.  SurfacesList and CurvesList hold the label whose surfaces and
\* lines the mesh tracker is asked for.
LabelFields(item, n) ==
    (n :> [NoField EXCEPT !.type = "MathEval", !.F = item.resolution])
    @@ (n + 1 :> [NoField EXCEPT !.type = "Restrict", !.InField = n,
                                 !.SurfacesList = item.label])
    @@ (n + 2 :> [NoField EXCEPT !.type = "Distance", !.CurvesList = item.label,
                                 !.Sampling = 100])
    @@ (n + 3 :> [NoField EXCEPT !.type = "Threshold", !.InField = n + 2,
                                 !.SizeMin = item.resolution,
                                 !.SizeMax = default_resolution_max,
                                 !.DistMin = 0, !.DistMax = item.distance])

\* The refinement loop from items[k] on: the fields and refinement_fields
\* at its end, and n.
RECURSIVE RefinementLoop(_, _, _)
RefinementLoop(items, k, state) ==
    IF k > Len(items) THEN state
    ELSE RefinementLoop(items, k + 1,
             [n |-> state.n + 4,
              fields |-> LabelFields(items[k], state.n) @@ state.fields,
              refinement_fields |-> state.refinement_fields
                                        \o <<state.n + 1, state.n + 3>>])

\* The loop and the Min field added after it, set as background mesh.
SizeFields(items) ==
    LET loop == RefinementLoop(items, 1,
                    [n |-> 0, fields |-> << >>, refinement_fields |-> << >>])
    IN  [fields |-> (loop.n :> [NoField EXCEPT !.type = "Min",
                                    !.FieldsList = loop.refinement_fields])
                    @@ loop.fields,
         background |-> loop.n]

\* The values of the argument filename.
Filenames == {"None", "mesh.msh"}

\* What the external mesher may do.
MeshOutcomes == {"mesh", "exception"}

----------------------------------------------------------------------------
Init ==
    /\ func = "none"
    /\ pc = "input"
    /\ emptyKind = "none"
    /\ ringStart = "none"
    /\ shapes_dict = << >>
    /\ shapes_tiled_dict = << >>
    /\ polygons_broken_dict = << >>
    /\ surface_calls = << >>
    /\ rings = {}
    /\ shapes_tiled_list = << >>
    /\ shapely_xy_surfaces = << >>
    /\ gmsh_xy_surfaces = << >>
    /\ physical_calls = << >>
    /\ curve = << >>
    /\ other_lines = << >>
    /\ line_before = << >>
    /\ line_after = << >>
    /\ session_calls = << >>
    /\ resolutions = [kind |-> "unread", items |-> << >>]
    /\ fields = << >>
    /\ background = -1
    /\ filename = "unread"
    /\ error = "none"
    /\ mesh_returned = FALSE
    /\ file_written = FALSE

\* The caller fills its dict.
AddShape ==
    /\ pc = "input"
    /\ Len(shapes_dict) < MaxShapes
    /\ \E s \in InputShapes : shapes_dict' = Append(shapes_dict, s)
    /\ UNCHANGED <<func, pc, surface_calls, session_calls, error>>
    /\ UNCHANGED orderedVars
    /\ UNCHANGED breakVars
    /\ UNCHANGED dictVars
    /\ UNCHANGED fieldVars
    /\ UNCHANGED resultVars

\* mesh_from_OrderedDict: the session is opened, then step 1.
OrderedTile ==
    /\ pc = "input"
    /\ shapes_dict # << >>
    /\ func' = "mesh_from_OrderedDict"
    /\ session_calls' = OpenSession
    /\ shapes_tiled_dict' = TileOrdered(shapes_dict)
    /\ emptyKind' \in EmptyKinds(TileOrdered(shapes_dict))
    /\ ringStart' \in RingStarts
    /\ pc' = "tiled"
    /\ UNCHANGED <<shapes_dict, polygons_broken_dict, surface_calls, error>>
    /\ UNCHANGED dictVars
    /\ UNCHANGED breakVars
    /\ UNCHANGED fieldVars
    /\ UNCHANGED resultVars

\* Step 2: the edges of the tiled regions are broken against each other.
OrderedBreak ==
    /\ pc = "tiled"
    /\ LET broken == BreakShapes(1, shapes_tiled_dict, emptyKind,
                         TiledPolygons(shapes_tiled_dict, emptyKind), << >>)
       IN  IF broken = "IndexError"
           THEN /\ pc' = Raise("IndexError").pc
                /\ error' = Raise("IndexError").error
                /\ session_calls' = CloseSession(session_calls)
                /\ UNCHANGED polygons_broken_dict
           ELSE /\ pc' = "broken"
                /\ polygons_broken_dict' = broken
                /\ UNCHANGED <<error, session_calls>>
    /\ UNCHANGED <<func, emptyKind, ringStart, shapes_dict, shapes_tiled_dict, surface_calls>>
    /\ UNCHANGED dictVars
    /\ UNCHANGED breakVars
    /\ UNCHANGED fieldVars
    /\ UNCHANGED resultVars

\* The loop that hands every entry of polygons_broken_dict to
\* meshtracker.add_xy_surface.
AddSurfaces ==
    /\ pc = "broken"
    /\ surface_calls' = polygons_broken_dict
    /\ pc' = "surfaces_added"
    /\ UNCHANGED <<func, shapes_dict, session_calls, error>>
    /\ UNCHANGED orderedVars
    /\ UNCHANGED breakVars
    /\ UNCHANGED dictVars
    /\ UNCHANGED fieldVars
    /\ UNCHANGED resultVars

\* The refinement fields of mesh_from_OrderedDict: resolutions.items() is
\* the first use of the argument, and None has no items.
OrderedFields ==
    /\ pc = "surfaces_added"
    /\ \E given \in ResolutionArgs(DOMAIN shapes_dict) :
           /\ resolutions' = given
           /\ IF given.kind = "None"
              THEN /\ pc' = Raise("AttributeError").pc
                   /\ error' = Raise("AttributeError").error
                   /\ session_calls' = CloseSession(session_calls)
                   /\ UNCHANGED <<fields, background>>
              ELSE /\ fields' = SizeFields(given.items).fields
                   /\ background' = SizeFields(given.items).background
                   /\ pc' = "fields_set"
                   /\ UNCHANGED <<error, session_calls>>
    /\ UNCHANGED <<func, shapes_dict, surface_calls>>
    /\ UNCHANGED orderedVars
    /\ UNCHANGED breakVars
    /\ UNCHANGED dictVars
    /\ UNCHANGED resultVars

\* mesh_from_Dict: the session is opened, then the tiling up to
\* shapes_tiled_list.
DictTile ==
    /\ pc = "input"
    /\ shapes_dict # << >>
    /\ func' = "mesh_from_Dict"
    /\ LET tiled == TileFragments(shapes_dict)
       IN  IF tiled = "AttributeError"
           THEN /\ pc' = Raise("AttributeError").pc
                /\ error' = Raise("AttributeError").error
                /\ session_calls' = CloseSession(OpenSession)
                /\ UNCHANGED <<rings, shapes_tiled_list>>
           ELSE /\ pc' = "fragmented"
                /\ rings' = CollectRings(shapes_dict)
                /\ shapes_tiled_list' = tiled
                /\ session_calls' = OpenSession
                /\ UNCHANGED error
    /\ UNCHANGED <<shapes_dict, surface_calls, shapely_xy_surfaces,
                   gmsh_xy_surfaces, physical_calls>>
    /\ UNCHANGED orderedVars
    /\ UNCHANGED breakVars
    /\ UNCHANGED fieldVars
    /\ UNCHANGED resultVars

\* The loop that adds every fragment as a surface, numbered from 0.
DictAddSurfaces ==
    /\ pc = "fragmented"
    /\ LET tracker == AddAllSurfaces([shapely |-> << >>, gmsh |-> << >>],
                                     shapes_tiled_list, 0)
       IN  /\ shapely_xy_surfaces' = tracker.shapely
           /\ gmsh_xy_surfaces' = tracker.gmsh
    /\ surface_calls' = [k \in DOMAIN shapes_tiled_list |->
                            [name |-> k - 1, polygon |-> shapes_tiled_list[k]]]
    /\ pc' = "fragments_added"
    /\ UNCHANGED <<func, shapes_dict, rings, shapes_tiled_list, physical_calls,
                   session_calls, error>>
    /\ UNCHANGED orderedVars
    /\ UNCHANGED breakVars
    /\ UNCHANGED fieldVars
    /\ UNCHANGED resultVars

\* The retag loop: one add_physical call per label.
DictRetag ==
    /\ pc = "fragments_added"
    /\ physical_calls' =
           [polygon_name \in DOMAIN shapes_dict |->
               [name |-> polygon_name,
                surfaces |-> LabelSurfaces(Components(shapes_dict[polygon_name]),
                                           shapely_xy_surfaces, gmsh_xy_surfaces)]]
    /\ pc' = "retagged"
    /\ UNCHANGED <<func, shapes_dict, surface_calls, rings, shapes_tiled_list,
                   shapely_xy_surfaces, gmsh_xy_surfaces, session_calls, error>>
    /\ UNCHANGED orderedVars
    /\ UNCHANGED breakVars
    /\ UNCHANGED fieldVars
    /\ UNCHANGED resultVars

\* The refinement fields of mesh_from_Dict: the loop and the Min field are
\* commented out, so the argument resolutions is accepted and not used.
DictFields ==
    /\ pc = "retagged"
    /\ resolutions' \in ResolutionArgs(DOMAIN shapes_dict)
    /\ pc' = "fields_set"
    /\ UNCHANGED <<func, shapes_dict, surface_calls, session_calls, error,
                   fields, background>>
    /\ UNCHANGED orderedVars
    /\ UNCHANGED breakVars
    /\ UNCHANGED dictVars
    /\ UNCHANGED resultVars

\* geometry.generate_mesh(dim=2): the mesher returns a mesh or raises.
GenerateMesh ==
    /\ pc = "fields_set"
    /\ \E outcome \in MeshOutcomes :
           IF outcome = "exception"
           THEN /\ pc' = Raise("MeshError").pc
                /\ error' = Raise("MeshError").error
                /\ session_calls' = CloseSession(session_calls)
           ELSE /\ pc' = "meshed"
                /\ UNCHANGED <<error, session_calls>>
    /\ UNCHANGED <<func, shapes_dict, surface_calls>>
    /\ UNCHANGED orderedVars
    /\ UNCHANGED breakVars
    /\ UNCHANGED dictVars
    /\ UNCHANGED fieldVars
    /\ UNCHANGED resultVars

\* The mesh is written if a filename was given, and returned.
ReturnMesh ==
    /\ pc = "meshed"
    /\ filename' \in Filenames
    /\ file_written' = (filename' # "None")
    /\ mesh_returned' = TRUE
    /\ session_calls' = CloseSession(session_calls)
    /\ pc' = "returned"
    /\ UNCHANGED <<func, shapes_dict, surface_calls, error>>
    /\ UNCHANGED orderedVars
    /\ UNCHANGED breakVars
    /\ UNCHANGED dictVars
    /\ UNCHANGED fieldVars

Next ==
    \/ AddShape
    \/ OrderedTile
    \/ OrderedBreak
    \/ AddSurfaces
    \/ OrderedFields
    \/ DictTile
    \/ DictAddSurfaces
    \/ DictRetag
    \/ DictFields
    \/ GenerateMesh
    \/ ReturnMesh

Spec == Init /\ [][Next]_vars

----------------------------------------------------------------------------
\* break_line called on its own, any number of times on the same line.

MaxBreaks == 3

\* Open and closed lines to break; the second ring does not start at its
\* least coordinate.
BreakCurves ==
    {<<<<0, 1>>, <<3, 1>>>>,
     <<<<0, 0>>, <<2, 0>>, <<2, 2>>>>,
     <<<<0, 0>>, <<2, 0>>, <<2, 2>>, <<0, 2>>, <<0, 0>>>>,
     <<<<3, 2>>, <<1, 2>>, <<1, 0>>, <<3, 0>>, <<3, 2>>>>}

\* Lines to break them against: they cross, touch and overlap the curves.
OtherLines ==
    {<<<<1, 0>>, <<1, 2>>>>,
     <<<<1, 1>>, <<2, 1>>>>,
     <<<<0, 1>>, <<1, 1>>>>,
     <<<<1, 0>>, <<3, 0>>>>,
     <<<<2, 1>>, <<2, 3>>>>,
     <<<<0, 1>>, <<1, 1>>, <<1, 2>>, <<2, 2>>, <<2, 0>>>>,
     <<<<0, 0>>, <<2, 0>>, <<2, 2>>, <<0, 2>>, <<0, 0>>>>}

InitBreak ==
    /\ func = "break_line"
    /\ pc = "input"
    /\ emptyKind = "none"
    /\ ringStart \in RingStarts
    /\ shapes_dict = << >>
    /\ shapes_tiled_dict = << >>
    /\ polygons_broken_dict = << >>
    /\ surface_calls = << >>
    /\ shapes_tiled_list = << >>
    /\ shapely_xy_surfaces = << >>
    /\ gmsh_xy_surfaces = << >>
    /\ physical_calls = << >>
    /\ rings = {}
    /\ session_calls = << >>
    /\ resolutions = [kind |-> "unread", items |-> << >>]
    /\ fields = << >>
    /\ background = -1
    /\ filename = "unread"
    /\ error = "none"
    /\ mesh_returned = FALSE
    /\ file_written = FALSE
    /\ curve \in BreakCurves
    /\ other_lines = << >>
    /\ line_before = curve
    /\ line_after = curve

\* One call line = break_line(line, other_line).
BreakLine ==
    /\ func = "break_line"
    /\ Len(other_lines) < MaxBreaks
    /\ \E other_line \in OtherLines :
           /\ other_lines' = Append(other_lines, other_line)
           /\ line_before' = line_after
           /\ line_after' = break_line(line_after, other_line)
    /\ UNCHANGED <<func, pc, shapes_dict, surface_calls, curve, session_calls, error>>
    /\ UNCHANGED orderedVars
    /\ UNCHANGED dictVars
    /\ UNCHANGED fieldVars
    /\ UNCHANGED resultVars

NextBreak == BreakLine

SpecBreak == InitBreak /\ [][NextBreak]_vars

----------------------------------------------------------------------------
\* Properties of mesh_from_OrderedDict.

Tiled == func = "mesh_from_OrderedDict"

Labels == DOMAIN shapes_dict

MutuallyOverlapping ==
    /\ Len(shapes_dict) = 3
    /\ shapes_dict[1] \cap shapes_dict[2] \cap shapes_dict[3] # {}
    /\ \A i \in Labels : \A j \in Labels \ {i} :
          shapes_dict[i] \ shapes_dict[j] # {}

\* C1 as claimed: of three mutually overlapping shapes A, B, C inserted in
\* this order, C is left whole, B loses C and A loses B and C; of two
\* overlapping shapes the one inserted later keeps the overlap.
C1_LaterShapeKeepsOverlap ==
    Tiled =>
        /\ MutuallyOverlapping =>
              /\ shapes_tiled_dict[1] = shapes_dict[1] \ (shapes_dict[2] \cup shapes_dict[3])
              /\ shapes_tiled_dict[2] = shapes_dict[2] \ shapes_dict[3]
              /\ shapes_tiled_dict[3] = shapes_dict[3]
        /\ \A i \in Labels : \A j \in Labels :
              i < j => shapes_tiled_dict[i] \cap shapes_dict[j] = {}

\* C1 as amended: of three mutually overlapping shapes A, B, C inserted in
\* this order, A is left whole, B loses A and C loses A and B; of two
\* overlapping shapes the one inserted earlier keeps the overlap.
C1_EarlierShapeKeepsOverlap ==
    Tiled =>
        /\ MutuallyOverlapping =>
              /\ shapes_tiled_dict[1] = shapes_dict[1]
              /\ shapes_tiled_dict[2] = shapes_dict[2] \ shapes_dict[1]
              /\ shapes_tiled_dict[3] = shapes_dict[3] \ (shapes_dict[1] \cup shapes_dict[2])
        /\ \A i \in Labels : \A j \in Labels :
              i < j => shapes_tiled_dict[j] \cap shapes_dict[i] = {}

C1_Witness == pc = "tiled" /\ MutuallyOverlapping

\* C2: the tiled regions of two distinct labels have no interior point in
\* common.
C2_TiledRegionsDisjoint ==
    Tiled =>
        \A i \in Labels : \A j \in Labels \ {i} :
            shapes_tiled_dict[i] \cap shapes_tiled_dict[j] = {}

C2_Witness ==
    /\ pc = "tiled"
    /\ Len(shapes_dict) = 3
    /\ \A i \in Labels : \A j \in Labels \ {i} :
          shapes_dict[i] \cap shapes_dict[j] # {} /\ shapes_tiled_dict[i] # {}

\* C3: step 1 gives one tiled region per input label, and the tiled regions
\* together cover exactly what the input shapes cover.
C3_TilingCoversInputs ==
    Tiled =>
        /\ DOMAIN shapes_tiled_dict = DOMAIN shapes_dict
        /\ UNION {shapes_tiled_dict[i] : i \in Labels} =
           UNION {shapes_dict[i] : i \in Labels}

C3_Witness ==
    /\ pc = "tiled"
    /\ Len(shapes_dict) = 3
    /\ \E i \in Labels : shapes_tiled_dict[i] # shapes_dict[i]
    /\ UNION {shapes_dict[i] : i \in Labels} # Full

\* The rings of the broken polygons of one label.
BrokenRings(entry) ==
    UNION {{polygon.exterior} \cup polygon.interiors : polygon \in entry.polygon}

\* The ends of the segments two rings share.
SharedEnds(r1, r2) ==
    LET common == UnitEdges(r1) \cap UnitEdges(r2)
    IN  {p \in UNION common : Cardinality({e \in common : p \in e}) = 1}

\* C6: after step 2, where the boundaries of two tiled regions share a
\* segment, both broken boundaries have a vertex at each end of the segment
\* and the same vertices along it.
C6_SharedSegmentsConform ==
    pc \in {"broken", "surfaces_added"} =>
        \A m \in DOMAIN polygons_broken_dict :
        \A n \in DOMAIN polygons_broken_dict \ {m} :
            \A r1 \in BrokenRings(polygons_broken_dict[m]) :
            \A r2 \in BrokenRings(polygons_broken_dict[n]) :
                LET shared == UNION (UnitEdges(r1) \cap UnitEdges(r2))
                IN  /\ SharedEnds(r1, r2) \subseteq Coords(r1) \cap Coords(r2)
                    /\ Coords(r1) \cap shared = Coords(r2) \cap shared

\* A build in which the hole of one region is shared by two other regions:
\* the hole's ring was unbroken where the two meet.
C6_Witness ==
    /\ pc = "broken"
    /\ \E m \in DOMAIN polygons_broken_dict :
           \E polygon \in polygons_broken_dict[m].polygon :
           \E ring \in polygon.interiors :
               \E g \in Components(shapes_tiled_dict[m]) :
               \E H \in Holes(g) :
                   /\ UnitEdges(RingOf(H)) = UnitEdges(ring)
                   /\ Coords(ring) # Coords(RingOf(H))

\* C10: a label whose tiled region is empty is filtered out: the build does
\* not fail on it and nothing of it reaches the mesh tracker.
C10_EmptyRegionFilteredOut ==
    Tiled =>
        \A i \in Labels :
            shapes_tiled_dict[i] = {} =>
                /\ error # "IndexError"
                /\ \A k \in DOMAIN surface_calls : surface_calls[k].name # i

----------------------------------------------------------------------------
\* Properties of mesh_from_Dict.

Range(list) == {list[k] : k \in DOMAIN list}

\* C4: in the retag step of mesh_from_Dict, the handles passed to
\* add_physical for a label contain the handle of a fragment if and only
\* if a polygon of the label's shape contains that fragment.
C4_HandlesMatchContainment ==
    (func = "mesh_from_Dict" /\ pc = "retagged") =>
        \A L \in DOMAIN physical_calls : \A f \in DOMAIN shapes_tiled_list :
            (gmsh_xy_surfaces[f] \in Range(physical_calls[L].surfaces))
                <=> (\E polygon \in Components(shapes_dict[L]) :
                        Contains(polygon, shapes_tiled_list[f]))

\* C5: whenever mesh_from_Dict has processed its input, it has produced
\* fragments and their union equals the union of all input shapes.
C5_FragmentsCoverInputs ==
    (func = "mesh_from_Dict") =>
        /\ error # "AttributeError"
        /\ UNION Range(shapes_tiled_list) = UnaryUnion(shapes_dict)

----------------------------------------------------------------------------
\* Properties of break_line.

Called == func = "break_line" /\ other_lines # << >>

LastOther == other_lines[Len(other_lines)]

\* The linework two lines share, the ends of the stretches along which
\* they overlap, and the points where they only cross or touch.
Overlap(l, o) == UnitEdges(l) \cap UnitEdges(o)

OverlapEnds(l, o) ==
    {p \in UNION Overlap(l, o) : Cardinality({e \in Overlap(l, o) : p \in e}) # 2}

CrossingPoints(l, o) == (LinePoints(l) \cap LinePoints(o)) \ UNION Overlap(l, o)

SamePoints(l, m) == LinePoints(l) = LinePoints(m) /\ UnitEdges(l) = UnitEdges(m)

\* C7 as stated: break_line(curve, other) covers the same points as curve
\* and has a vertex at every point where curve meets other (where they
\* cross or touch and where an overlap ends) that is not an endpoint of
\* curve.
C7_VertexAtEveryIntersection ==
    Called =>
        /\ SamePoints(line_after, line_before)
        /\ \A p \in (OverlapEnds(line_before, LastOther)
                        \cup CrossingPoints(line_before, LastOther))
                    \ LineBoundary(line_before) : p \in Coords(line_after)

\* C7, amended: break_line(curve, other) covers the same points as curve,
\* keeps every vertex of curve and has a vertex at both ends of every
\* stretch along which curve and other overlap; every new vertex lies on
\* such a stretch, and a point where the two only cross or touch gets no
\* vertex.
C7_VertexAtOverlapEnds ==
    Called =>
        /\ SamePoints(line_after, line_before)
        /\ Coords(line_before) \subseteq Coords(line_after)
        /\ OverlapEnds(line_before, LastOther) \subseteq Coords(line_after)
        /\ Coords(line_after) \ Coords(line_before)
               \subseteq UNION Overlap(line_before, LastOther)
        /\ \A p \in CrossingPoints(line_before, LastOther) :
               p \in Coords(line_after) <=> p \in Coords(line_before)

\* A call against a line that overlaps the curve up to a point that was no
\* vertex, and crosses it at another point that was no vertex.
C7_Witness ==
    /\ Called
    /\ OverlapEnds(line_before, LastOther) \ Coords(line_before) # {}
    /\ CrossingPoints(line_before, LastOther) \ Coords(line_before) # {}
    /\ line_after # line_before

\* C8: breaking a line again against the line it has just been broken
\* against returns it with the same vertex sequence.
C8_BreakIdempotent ==
    Called => break_line(line_after, LastOther) = line_after

\* A call that has changed the vertex sequence of a ring and moved its
\* start, and one that has changed an open line.
C8_Witness ==
    /\ Called
    /\ line_after # line_before
    /\ IsClosed(line_before)
    /\ line_after[1] # line_before[1]

Segments(l) == {{l[i], l[i + 1]} : i \in 1 .. Len(l) - 1}

\* break_line applied to a line against a list of other lines, in order.
RECURSIVE BreakInOrder(_, _)
BreakInOrder(l, others) ==
    IF others = << >> THEN l
    ELSE BreakInOrder(break_line(l, Head(others)), Tail(others))

Perms(n) == {f \in [1 .. n -> 1 .. n] : \A i, j \in 1 .. n : f[i] = f[j] => i = j}

\* C9: breaking the curve against the same other lines taken in any other
\* order gives the same vertices and the same sub-segments.
C9_OrderOfOthersIrrelevant ==
    Called =>
        \A f \in Perms(Len(other_lines)) :
            LET r == BreakInOrder(curve, [k \in DOMAIN other_lines |-> other_lines[f[k]]])
            IN  Coords(r) = Coords(line_after) /\ Segments(r) = Segments(line_after)

\* Three different other lines, each of which has added a vertex.
C9_Witness ==
    /\ Called
    /\ Len(other_lines) = 3
    /\ Cardinality(Range(other_lines)) = 3
    /\ \A k \in DOMAIN other_lines :
           Coords(break_line(curve, other_lines[k])) # Coords(curve)
    /\ Coords(line_after) # Coords(line_before)

----------------------------------------------------------------------------
\* Properties of a whole build.

Build == func \in {"mesh_from_OrderedDict", "mesh_from_Dict"}

Ended == Build /\ pc \in {"returned", "failed"}

Opening == {"__enter__", "gmsh.initialize"}

CountCalls(calls, names) == Cardinality({k \in DOMAIN calls : calls[k] \in names})

\* C11: a build opens the session at its start and closes it on every way
\* out, and every call that opens the session is matched by one that
\* closes it.
C11_SessionScoped ==
    /\ Build => session_calls # << >> /\ session_calls[1] \in Opening
    /\ Ended =>
          /\ session_calls[Len(session_calls)] = "__exit__"
          /\ CountCalls(session_calls, Opening) = CountCalls(session_calls, {"__exit__"})

\* The fields a label's request needs, among the fields of FieldsList.
LabelServed(item, list) ==
    \E r \in Range(list) : \E t \in Range(list) :
        /\ r \in DOMAIN fields /\ t \in DOMAIN fields
        /\ fields[r].type = "Restrict"
        /\ fields[r].SurfacesList = item.label
        /\ fields[r].InField \in DOMAIN fields
        /\ fields[fields[r].InField].type = "MathEval"
        /\ fields[fields[r].InField].F = item.resolution
        /\ fields[t].type = "Threshold"
        /\ fields[t].SizeMin = item.resolution
        /\ fields[t].SizeMax = default_resolution_max
        /\ fields[t].DistMin = 0
        /\ fields[t].DistMax = item.distance
        /\ fields[t].InField \in DOMAIN fields
        /\ fields[fields[t].InField].type = "Distance"
        /\ fields[fields[t].InField].CurvesList = item.label

FieldsComplete ==
    /\ background \in DOMAIN fields
    /\ fields[background].type = "Min"
    /\ \A item \in Range(resolutions.items) :
           LabelServed(item, fields[background].FieldsList)
    /\ Cardinality(DOMAIN fields) = 4 * Len(resolutions.items) + 1

\* C12: in a build of either function that is given a resolutions dict, the
\* background field is a Min field over the restricted field and the
\* threshold field of every label of the dict, and no field id is used
\* twice.
C12_FieldsForEveryLabel ==
    (Build /\ resolutions.kind = "dict") => FieldsComplete

\* The boundary rings of an area-bearing intersection, as linework.
BoundaryRings(object) ==
    UNION {{UnitEdges(Exterior(g))} \cup {UnitEdges(r) : r \in Interiors(g)} :
              g \in object.polygons}

\* C13: in mesh_from_Dict every pairwise intersection that bears no area is
\* skipped without error, and every boundary ring, exterior and interior,
\* of every intersection that bears area is among the rings polygonized.
C13_AllRingsCollected ==
    (func = "mesh_from_Dict" /\ pc \in {"fragmented", "failed"}) =>
        /\ error # "AttributeError"
        /\ \A object \in ListPoly(<<UnaryUnion(shapes_dict)>> \o shapes_dict) :
               BoundaryRings(object) \subseteq {UnitEdges(r) : r \in rings}

\* C14: a build in which a step has failed ends with the error at the
\* caller, returns no mesh and writes no file; the file is written only by
\* a build that got its mesh from the mesher and was given a filename.
C14_NoPartialResult ==
    Build =>
        /\ error # "none" => pc = "failed" /\ ~mesh_returned /\ ~file_written
        /\ pc = "failed" => error # "none"
        /\ mesh_returned => pc = "returned" /\ error = "none"
        /\ file_written => mesh_returned /\ filename = "mesh.msh"

\* A build of mesh_from_OrderedDict with size fields set whose mesher has
\* failed.
C14_Witness ==
    /\ func = "mesh_from_OrderedDict"
    /\ error = "MeshError"
    /\ Len(resolutions.items) > 0

\* C15: a call of mesh_from_OrderedDict that leaves resolutions at its
\* default None does not fail on it: it goes on to the mesher with no
\* per-label field.
C15_ResolutionsOptional ==
    (func = "mesh_from_OrderedDict" /\ resolutions.kind = "None") =>
        /\ error # "AttributeError"
        /\ pc \in {"fields_set", "meshed", "returned", "failed"}
        /\ \A id \in DOMAIN fields : fields[id].type = "Min"

====
